---- MODULE Spec2Model ----
(***************************************************************************)
(* Model of package text of dragoman (src/unnamed/part_000): Range,        *)
(* Extract / ExtractString, Replace and ReplaceMany.                       *)
(*                                                                         *)
(* A Go string is modelled as the sequence of its bytes (naturals 0..255). *)
(* Offsets are Go uint/int (64 bit); every offset of the model is far      *)
(* below 2^63, so uint subtraction followed by int() is the signed         *)
(* difference and no other operation wraps.                                *)
(***************************************************************************)
EXTENDS Integers, Sequences, FiniteSets, TLC

\* ---------------------------------------------------------------- bounds
MaxDocLen == 2      \* longest document / source, in bytes
MaxOff == 2         \* largest range offset drawn
MaxRepl == 3        \* most replacements passed to one ReplaceMany call

\* ------------------------------------------------------- input universes
\* A document is a sequence of characters; the i-th byte, when ASCII, is the
\* letter 'a' + i - 1, so that every position is recognisable; a two-byte
\* character is U+00E9 (0xC3 0xA9).
DocBytes == {195, 169} \cup {96 + i : i \in 1..MaxDocLen}

\* All byte strings for a raw source handed to Extract, valid UTF-8 or not.
SrcBytes == {97, 195, 169}

Ranges == {<<s, e>> : s \in 0..MaxOff, e \in 0..MaxOff}

\* Replacement texts: shorter than, as long as, or longer than a range.
Texts == {<<>>, <<88, 89>>}

\* ------------------------------------------------------------ Go strings
\* s[:n] and s[n:] for 0 <= n <= len(s)
Prefix(s, n) == SubSeq(s, 1, n)
Suffix(s, n) == SubSeq(s, n + 1, Len(s))

\* Go panics on s[:n] or s[n:] unless 0 <= n <= len(s).
SliceOK(s, n) == 0 <= n /\ n <= Len(s)

IsCont(b) == 128 <= b /\ b <= 191

\* utf8.DecodeRune on the bytes of s from (0-based) offset p; p < Len(s).
\* The result is <<rune, size>>; an invalid or short encoding decodes as
\* U+FFFD (65533) of size 1.
DecodeRune(s, p) ==
    LET n == Len(s) - p
        b0 == s[p + 1]
        b1 == IF n >= 2 THEN s[p + 2] ELSE 0
        b2 == IF n >= 3 THEN s[p + 3] ELSE 0
        b3 == IF n >= 4 THEN s[p + 4] ELSE 0
        lo1 == IF b0 = 224 THEN 160 ELSE IF b0 = 240 THEN 144 ELSE 128
        hi1 == IF b0 = 237 THEN 159 ELSE IF b0 = 244 THEN 143 ELSE 191
        ok1 == n >= 2 /\ lo1 <= b1 /\ b1 <= hi1
    IN  IF b0 < 128 THEN <<b0, 1>>
        ELSE IF 194 <= b0 /\ b0 <= 223 /\ ok1
            THEN <<(b0 - 192) * 64 + (b1 - 128), 2>>
        ELSE IF 224 <= b0 /\ b0 <= 239 /\ ok1 /\ n >= 3 /\ IsCont(b2)
            THEN <<(b0 - 224) * 4096 + (b1 - 128) * 64 + (b2 - 128), 3>>
        ELSE IF 240 <= b0 /\ b0 <= 244 /\ ok1 /\ n >= 4 /\ IsCont(b2) /\ IsCont(b3)
            THEN <<(b0 - 240) * 262144 + (b1 - 128) * 4096
                    + (b2 - 128) * 64 + (b3 - 128), 4>>
        ELSE <<65533, 1>>

\* The UTF-8 encoding of one rune, as string(rune) produces it.
EncodeRune(r) ==
    IF r < 128 THEN <<r>>
    ELSE IF r < 2048 THEN <<192 + (r \div 64), 128 + (r % 64)>>
    ELSE IF r < 65536
        THEN <<224 + (r \div 4096), 128 + ((r \div 64) % 64), 128 + (r % 64)>>
    ELSE <<240 + (r \div 262144), 128 + ((r \div 4096) % 64),
           128 + ((r \div 64) % 64), 128 + (r % 64)>>

\* string(runes)
RECURSIVE RunesToString(_)
RunesToString(runes) ==
    IF runes = <<>> THEN <<>>
    ELSE EncodeRune(Head(runes)) \o RunesToString(Tail(runes))

\* A byte string is valid UTF-8 from offset p on.
RECURSIVE ValidFrom(_, _)
ValidFrom(s, p) ==
    IF p >= Len(s) THEN TRUE
    ELSE LET d == DecodeRune(s, p)
         IN  /\ ~(d[1] = 65533 /\ d[2] = 1)
             /\ ValidFrom(s, p + d[2])

ValidUTF8(s) == ValidFrom(s, 0)

Docs ==
    UNION {{d \in [1..n -> DocBytes] :
                /\ ValidUTF8(d)
                /\ \A i \in 1..n : d[i] < 128 => d[i] = 96 + i}
           : n \in 0..MaxDocLen}

Sources == UNION {[1..n -> SrcBytes] : n \in 0..MaxDocLen}

\* ----------------------------------------------------------------- Range
\* func (r Range) Len() int { return int(r[1] - r[0]) }
RangeLen(r) == r[2] - r[1]

\* --------------------------------------------------------------- results
\* What a call hands back: the string, and err = "nil", "RangeError",
\* "IOError" (a wrapped non-range error) or "panic" (a Go runtime panic, the
\* call does not return). range and msg are the RangeError's fields.
NoRange == <<>>
Ok(str) == [str |-> str, err |-> "nil", range |-> NoRange, msg |-> "", pos |-> 0]
RangeError(str, r, msg, pos) ==
    [str |-> str, err |-> "RangeError", range |-> r, msg |-> msg, pos |-> pos]
IOError(msg) ==
    [str |-> <<>>, err |-> "IOError", range |-> NoRange, msg |-> msg, pos |-> 0]
Panic == [str |-> <<>>, err |-> "panic", range |-> NoRange,
          msg |-> "slice bounds out of range", pos |-> 0]

\* --------------------------------------------------------------- sources
\* An io.ReadSeeker: its bytes and at most one injected failure.
\*   "none"   every Seek and Read succeeds (a strings.Reader)
\*   "seek"   Seek(start, SeekStart) fails
\*   "probe"  the one-byte Read at the start offset fails, not with EOF
\*   "rewind" Seek(-1, SeekCurrent) fails: the position stays start + 1
\*   "read"   the Read that fills the bufio.Reader hands back `after` bytes
\*            and then fails, not with EOF
Faults == {"none", "seek", "probe", "rewind", "read"}
Source(data, fault, after) == [data |-> data, fault |-> fault, after |-> after]
StringsReader(s) == Source(s, "none", 0)

\* The rune loop of Extract: l runes still to read from the bytes `avail`
\* at offset p, `runes` read so far.  The result is the runes, or "eof" /
\* "ioerr" with the number of runes read when the bytes ran out.
RECURSIVE ReadRunes(_, _, _, _, _)

\* The rune loop with the end-of-input check left out: it stops at the end
\* of the bytes and hands back the runes it has.
RECURSIVE ReadRunesNoEOF(_, _, _, _, _)
ReadRunesNoEOF(avail, p, l, runes, atEnd) ==
    IF l = 0 \/ p >= Len(avail) THEN [kind |-> "ok", runes |-> runes]
    ELSE LET d == DecodeRune(avail, p)
         IN  ReadRunesNoEOF(avail, p + d[2], l - 1, Append(runes, d[1]), atEnd)

ReadRunes(avail, p, l, runes, atEnd) ==
    IF l = 0 THEN [kind |-> "ok", runes |-> runes]
    ELSE IF p >= Len(avail) THEN [kind |-> atEnd, runes |-> runes]
    ELSE LET d == DecodeRune(avail, p)
         IN  ReadRunes(avail, p + d[2], l - 1, Append(runes, d[1]), atEnd)

\* func Extract(input io.ReadSeeker, r Range) (string, error)
Extract(input, r) ==
    LET rangeLen == RangeLen(r)
        n == Len(input.data)
        \* position after the probe and the (unchecked) Seek(-1, SeekCurrent)
        start == IF input.fault = "rewind" THEN r[1] + 1 ELSE r[1]
        rest == IF start >= n THEN <<>> ELSE Suffix(input.data, start)
        avail == IF input.fault = "read" /\ input.after < Len(rest)
                 THEN Prefix(rest, input.after) ELSE rest
        atEnd == IF input.fault = "read" /\ input.after <= Len(rest)
                 THEN "ioerr" ELSE "eof"
        rd == ReadRunes(avail, 0, rangeLen, <<>>, atEnd)
    IN  IF rangeLen = 0 THEN Ok(<<>>)
        ELSE IF rangeLen < 0
            THEN RangeError(<<>>, r, "negative length range", 0)
        ELSE IF input.fault = "seek" THEN IOError("seek pos")
        ELSE IF input.fault = "probe" \/ r[1] >= n
            THEN RangeError(<<>>, r, "range start after input end", r[1])
        ELSE IF rd.kind = "eof"
            THEN RangeError(<<>>, r, "range end after input end",
                            r[1] + Len(rd.runes))
        ELSE IF rd.kind = "ioerr" THEN IOError("read rune")
        ELSE Ok(RunesToString(rd.runes))

\* func ExtractString(input string, r Range) (string, error)
ExtractString(input, r) == Extract(StringsReader(input), r)

\* --------------------------------------------------------------- Replace
\* func Replace(text, repl string, r Range) (string, error)
Replace(text, repl, r) ==
    IF RangeLen(r) > Len(text)
        THEN RangeError(text, r, "out of bounds", 0)
    ELSE IF ~SliceOK(text, r[1]) \/ ~SliceOK(text, r[2]) THEN Panic
    ELSE Ok(Prefix(text, r[1]) \o repl \o Suffix(text, r[2]))

\* ----------------------------------------------------------- ReplaceMany
\* type Replacement struct { Range Range; Text string }
Replacement(r, text) == [Range |-> r, Text |-> text]
Replacements == {Replacement(r, t) : r \in Ranges, t \in Texts}

\* type offset struct { start uint; offset int }
Offset(start, offset) == [start |-> start, offset |-> offset]

\* The inner loop: the sum of the recorded offsets whose start is at or
\* before the start of the range.
RECURSIVE AppliedOffset(_, _)
AppliedOffset(offsets, start) ==
    IF offsets = <<>> THEN 0
    ELSE (IF Head(offsets).start <= start THEN Head(offsets).offset ELSE 0)
         + AppliedOffset(Tail(offsets), start)

\* Splice with the text inserted at the start of the range and the range's
\* own bytes kept (Range[0] used for both cuts).
SpliceKeepsRange(output, repl, off) ==
    LET lo == repl.Range[1] + off
    IN  IF ~SliceOK(output, lo) THEN Panic
        ELSE Ok(Prefix(output, lo) \o repl.Text \o Suffix(output, lo))

\* output[:int(repl.Range[0])+off] + repl.Text + output[int(repl.Range[1])+off:]
Splice(output, repl, off) ==
    LET lo == repl.Range[1] + off
        hi == repl.Range[2] + off
    IN  IF ~SliceOK(output, lo) \/ ~SliceOK(output, hi) THEN Panic
        ELSE Ok(Prefix(output, lo) \o repl.Text \o Suffix(output, hi))

\* The entry the iteration appends to offsets, if any.
Record(offsets, repl, off, lenDiff) ==
    IF lenDiff # 0
        THEN Append(offsets, Offset(repl.Range[2] + off, lenDiff))
        ELSE offsets

\* A call that has not returned.
Running == [str |-> <<>>, err |-> "running", range |-> NoRange, msg |-> "", pos |-> 0]

\* fmt.Errorf("extract text: %w", err): the cause stays reachable, the
\* returned string is "".
Wrap(e) == [e EXCEPT !.str = <<>>]

\* One iteration of the loop of ReplaceMany over repl: the locals after it
\* and what the call returns, if it returns here.
LoopBody(in, output, offsets, repl) ==
    LET off == AppliedOffset(offsets, repl.Range[1])
        sp == Splice(output, repl, off)
        org == ExtractString(in, repl.Range)
        lenDiff == Len(repl.Text) - Len(org.str)
    IN  IF sp.err = "panic"
            THEN [output |-> output, offsets |-> offsets, off |-> off, ret |-> Panic]
        ELSE IF org.err # "nil"
            THEN [output |-> sp.str, offsets |-> offsets, off |-> off,
                  ret |-> Wrap(org)]
        ELSE [output |-> sp.str, offsets |-> Record(offsets, repl, off, lenDiff),
              off |-> off, ret |-> Running]

\* func ReplaceMany(input string, replacements ...Replacement) (string, error)
RECURSIVE RMLoop(_, _, _, _)
RMLoop(in, output, offsets, repls) ==
    IF repls = <<>> THEN Ok(output)
    ELSE LET b == LoopBody(in, output, offsets, Head(repls))
         IN  IF b.ret.err # "running" THEN b.ret
             ELSE RMLoop(in, b.output, b.offsets, Tail(repls))

ReplaceMany(in, repls) == RMLoop(in, in, <<>>, repls)

\* ------------------------------------------------------------------ state
VARIABLES
    pc,            \* "idle", or the function called: "Extract", "Replace",
                   \* "ReplaceMany" (in its loop), "returned" (from ReplaceMany)
    input,         \* ReplaceMany: the input string; Replace: text
    replacements,  \* ReplaceMany: the replacements ranged over so far
    output,        \* ReplaceMany: the working string
    offsets,       \* ReplaceMany: the recorded offsets
    before,        \* ReplaceMany: output at the start of the last iteration
    off,           \* ReplaceMany: off of the last iteration
    args,          \* Extract, Replace: the other arguments of the call
    ret            \* what the call returned

vars == <<pc, input, replacements, output, offsets, before, off, args, ret>>

NoArgs == [source |-> StringsReader(<<>>), r |-> <<0, 0>>, repl |-> <<>>]

Init ==
    /\ pc = "idle"
    /\ input = <<>>
    /\ replacements = <<>>
    /\ output = <<>>
    /\ offsets = <<>>
    /\ before = <<>>
    /\ off = 0
    /\ args = NoArgs
    /\ ret = Running

\* Extract(input, r) on a source of the caller
CallExtract ==
    /\ pc = "idle"
    /\ \E data \in Sources, fault \in Faults, after \in 0..MaxDocLen, r \in Ranges :
        /\ fault # "read" => after = 0
        /\ args' = [NoArgs EXCEPT !.source = Source(data, fault, after), !.r = r]
        /\ ret' = Extract(Source(data, fault, after), r)
    /\ pc' = "Extract"
    /\ UNCHANGED <<input, replacements, output, offsets, before, off>>

\* Replace(text, repl, r)
CallReplace ==
    /\ pc = "idle"
    /\ \E text \in Docs, repl \in Texts, r \in Ranges :
        /\ input' = text
        /\ args' = [NoArgs EXCEPT !.r = r, !.repl = repl]
        /\ ret' = Replace(text, repl, r)
    /\ pc' = "Replace"
    /\ UNCHANGED <<replacements, output, offsets, before, off>>

\* ReplaceMany(input, replacements...): entry, output := input
CallReplaceMany ==
    /\ pc = "idle"
    /\ \E doc \in Docs :
        /\ input' = doc
        /\ output' = doc
        /\ before' = doc
    /\ pc' = "ReplaceMany"
    /\ UNCHANGED <<replacements, offsets, off, args, ret>>

\* One iteration of `for _, repl := range replacements`; the variadic
\* argument is read one element per iteration.
RMIterate ==
    /\ pc = "ReplaceMany"
    /\ Len(replacements) < MaxRepl
    /\ \E repl \in Replacements :
        LET b == LoopBody(input, output, offsets, repl)
        IN  /\ replacements' = Append(replacements, repl)
            /\ before' = output
            /\ output' = b.output
            /\ offsets' = b.offsets
            /\ off' = b.off
            /\ ret' = b.ret
            /\ pc' = IF b.ret.err = "running" THEN "ReplaceMany" ELSE "returned"
    /\ UNCHANGED <<input, args>>

\* The range is exhausted: return output, nil
RMReturn ==
    /\ pc = "ReplaceMany"
    /\ ret' = Ok(output)
    /\ pc' = "returned"
    /\ UNCHANGED <<input, replacements, output, offsets, before, off, args>>

Next ==
    \/ CallExtract
    \/ CallReplace
    \/ CallReplaceMany
    \/ RMIterate
    \/ RMReturn

Spec == Init /\ [][Next]_vars

\* ================================================================ claims
\* ------------------------------------------------- vocabulary of the claims
IsAscii(s) == \A i \in 1..Len(s) : s[i] < 128

\* 0 <= start <= end <= len(doc), in bytes
InBounds(doc, r) == r[1] <= r[2] /\ r[2] <= Len(doc)
AllInBounds(doc, repls) == \A i \in 1..Len(repls) : InBounds(doc, repls[i].Range)

\* Two half-open ranges share no offset.
NonOverlap(r1, r2) == r1[2] <= r2[1] \/ r2[2] <= r1[1]
PairwiseNonOverlap(repls) ==
    \A i, j \in 1..Len(repls) : i # j => NonOverlap(repls[i].Range, repls[j].Range)

\* No two replacements insert at the same offset (two empty ranges at one
\* offset overlap nothing, but the order of their texts is then not given
\* by the ranges).
NoTwinInserts(repls) ==
    \A i, j \in 1..Len(repls) :
        (i # j /\ RangeLen(repls[i].Range) = 0) => repls[i].Range # repls[j].Range

\* The bytes of doc a range covers, doc[start:end].
Covered(doc, r) == IF InBounds(doc, r) THEN SubSeq(doc, r[1] + 1, r[2]) ELSE <<>>

\* The document with every range replaced in original coordinates, built
\* from offset p on: an insertion at p, then either the text of the range
\* that starts at p or the byte at p.
RECURSIVE Expected(_, _, _)
Expected(doc, repls, p) ==
    LET ins == {i \in 1..Len(repls) : repls[i].Range = <<p, p>>}
        st == {i \in 1..Len(repls) : repls[i].Range[1] = p /\ repls[i].Range[2] > p}
        insText == IF ins = {} THEN <<>> ELSE repls[CHOOSE i \in ins : TRUE].Text
    IN  insText \o
        (IF st # {}
            THEN LET i == CHOOSE i \in st : TRUE
                 IN  repls[i].Text \o Expected(doc, repls, repls[i].Range[2])
         ELSE IF p < Len(doc) THEN <<doc[p + 1]>> \o Expected(doc, repls, p + 1)
         ELSE <<>>)

RECURSIVE SumDeltas(_, _)
SumDeltas(doc, repls) ==
    IF repls = <<>> THEN 0
    ELSE Len(Head(repls).Text) - Len(Covered(doc, Head(repls).Range))
         + SumDeltas(doc, Tail(repls))

RECURSIVE SumOffsets(_)
SumOffsets(offs) ==
    IF offs = <<>> THEN 0 ELSE Head(offs).offset + SumOffsets(Tail(offs))

\* C1 (on ASCII documents, where byte and rune offsets coincide, and without
\* two insertions at one offset): for in-bounds, pairwise non-overlapping
\* ranges in any order ReplaceMany returns, without error, the document with
\* every range replaced in original coordinates and every other byte kept.
C1_ReplaceManyCorrect ==
    (/\ pc = "returned"
     /\ IsAscii(input)
     /\ AllInBounds(input, replacements)
     /\ PairwiseNonOverlap(replacements)
     /\ NoTwinInserts(replacements))
    => ret = Ok(Expected(input, replacements, 0))

\* C2 (for in-bounds ranges, without two insertions at one offset): for two
\* non-overlapping replacements A and B, ReplaceMany(doc, A, B) and
\* ReplaceMany(doc, B, A) yield the same output.
C2_OrderIndependent ==
    (/\ pc = "returned"
     /\ Len(replacements) = 2
     /\ AllInBounds(input, replacements)
     /\ PairwiseNonOverlap(replacements)
     /\ NoTwinInserts(replacements))
    => LET swapped == ReplaceMany(input, <<replacements[2], replacements[1]>>)
       IN  ret.err = swapped.err /\ ret.str = swapped.str

\* C3: for every document and every single replacement r, ReplaceMany(doc, r)
\* returns the same string and the same success-or-error outcome as
\* Replace(doc, r.Text, r.Range).
C3_SingleEqualsReplace ==
    (pc = "returned" /\ Len(replacements) = 1)
    => LET r == replacements[1]
           single == Replace(input, r.Text, r.Range)
       IN  ret.err = single.err /\ ret.str = single.str

\* C4: whenever ReplaceMany returns an output, its length is the length of
\* the document plus the sum, over the replacements, of the length of the
\* text minus the length of the bytes the range covers in the document.
C4_LengthConservation ==
    (pc = "returned" /\ ret.err = "nil")
    => Len(ret.str) = Len(input) + SumDeltas(input, replacements)

\* C4 witness: ReplaceMany has returned an output after a replacement that
\* grows and one that shrinks a non-empty range of the document.
C4_Witness ==
    /\ pc = "returned"
    /\ ret.err = "nil"
    /\ \E i, j \in 1..Len(replacements) :
        /\ RangeLen(replacements[i].Range) = 1
        /\ Len(replacements[i].Text) = 2
        /\ RangeLen(replacements[j].Range) > 0
        /\ replacements[j].Text = <<>>

\* C5: Extract and Replace, called with a range whose end is before its
\* start, fail with a RangeError for a negative-length range.
C5_NegativeRangeFails ==
    (pc \in {"Extract", "Replace"} /\ args.r[2] < args.r[1])
    => (ret.err = "RangeError" /\ ret.range = args.r)

\* C6 as stated (on sources whose seeks and reads all succeed): Extract on
\* any range whose end exceeds the source length, ranges with start = end
\* included, fails with a RangeError that carries the range.
C6_EndPastSourceFails ==
    (/\ pc = "Extract"
     /\ args.source.fault = "none"
     /\ args.r[2] > Len(args.source.data))
    => (ret.err = "RangeError" /\ ret.range = args.r)

\* C6 amended: Extract on a range with start # end whose end exceeds the
\* source length never returns a string: it fails with a RangeError that
\* carries the range, or, only when a seek or read of the source fails, with
\* a wrapped I/O error.  On a range with start = end it returns "" and no
\* error, whatever the source length.
C6_NonEmptyEndPastSourceFails ==
    (pc = "Extract" /\ args.r[2] > Len(args.source.data))
    => IF args.r[1] = args.r[2]
          THEN ret = Ok(<<>>)
          ELSE /\ ret.err \in {"RangeError", "IOError"}
               /\ ret.err = "RangeError" => ret.range = args.r
               /\ ret.err = "IOError" => args.source.fault \in {"seek", "read"}

\* C6 witness: Extract has read into a source from an offset inside it and
\* run out of input before the end of the range.
C6_Witness ==
    /\ pc = "Extract"
    /\ args.r[1] < Len(args.source.data)
    /\ args.r[2] > Len(args.source.data)
    /\ ret.err = "RangeError"
    /\ ret.msg = "range end after input end"
    /\ ret.pos > args.r[1]

\* C7: Replace with a range (start <= end) whose end is past the end of the
\* document returns a RangeError for that range and never slices out of bounds; for
\* an in-bounds range it returns document[:start] + text + document[end:].
C7_ReplaceBoundsChecked ==
    pc = "Replace"
    => /\ (args.r[1] <= args.r[2] /\ args.r[2] > Len(input))
            => (ret.err = "RangeError" /\ ret.range = args.r)
       /\ InBounds(input, args.r)
            => ret = Ok(Prefix(input, args.r[1]) \o args.repl \o Suffix(input, args.r[2]))

\* The number of runes the bytes of s hold from offset p on.
RECURSIVE CountRunes(_, _)
CountRunes(s, p) ==
    IF p >= Len(s) THEN 0 ELSE 1 + CountRunes(s, p + DecodeRune(s, p)[2])

\* C8: in Extract a seek or read failure of the source that is not
\* end-of-input, the one-byte probe included, is returned as a wrapped I/O
\* error; a RangeError is returned only for a negative-length range, a start
\* at or past the end of the input, or an end past the end of the input.
C8_IOErrorsNotRangeErrors ==
    pc = "Extract"
    => LET src == args.source
           r == args.r
       IN  /\ (src.fault = "seek" /\ RangeLen(r) > 0) => ret.err = "IOError"
           /\ (src.fault = "probe" /\ RangeLen(r) > 0 /\ r[1] < Len(src.data))
                => ret.err = "IOError"
           /\ ret.err = "RangeError"
                => \/ RangeLen(r) < 0
                   \/ r[1] >= Len(src.data)
                   \/ CountRunes(src.data, r[1]) < RangeLen(r)

\* The sum of the length deltas of those of the first n replacements whose
\* range ends at or before start.
RECURSIVE ShiftAt(_, _, _, _)
ShiftAt(doc, repls, n, start) ==
    IF n = 0 THEN 0
    ELSE (IF repls[n].Range[2] <= start
             THEN Len(repls[n].Text) - Len(Covered(doc, repls[n].Range))
             ELSE 0)
         + ShiftAt(doc, repls, n - 1, start)

\* C9 (on ASCII documents, without two insertions at one offset): for
\* in-bounds, pairwise non-overlapping ranges taken in any order, at every
\* iteration the splice interval
\* [start + off, end + off) lies within the working string and holds the
\* document's bytes at [start, end), and off is the sum of the length deltas
\* of the replacements taken before whose range ends at or before start.
C9_SpliceTargetsOriginalSpan ==
    (/\ pc \in {"ReplaceMany", "returned"}
     /\ Len(replacements) >= 1
     /\ IsAscii(input)
     /\ AllInBounds(input, replacements)
     /\ PairwiseNonOverlap(replacements)
     /\ NoTwinInserts(replacements))
    => LET n == Len(replacements)
           r == replacements[n].Range
           lo == r[1] + off
           hi == r[2] + off
       IN  /\ 0 <= lo /\ lo <= hi /\ hi <= Len(before)
           /\ SubSeq(before, lo + 1, hi) = SubSeq(input, r[1] + 1, r[2])
           /\ off = ShiftAt(input, replacements, n - 1, r[1])

\* C10: in ReplaceMany the recorded length deltas are in the unit of the
\* splice, also on documents with multi-byte characters: after every
\* iteration len(working) - len(original) is the sum of the recorded deltas.
C10_DeltasMatchSplice ==
    (pc = "ReplaceMany" \/ (pc = "returned" /\ ret.err = "nil"))
    => Len(output) - Len(input) = SumOffsets(offsets)

\* The replacements come last span of the document first.
DescendingStarts(repls) ==
    \A i, j \in 1..Len(repls) : i < j => repls[i].Range[1] > repls[j].Range[1]

NonEmptyRanges(repls) == \A i \in 1..Len(repls) : RangeLen(repls[i].Range) > 0

\* C11: when the replacements are in bounds, non-empty, pairwise
\* non-overlapping and in descending order of range start, every iteration
\* computes off = 0, no splice goes out of bounds, and ReplaceMany returns
\* the document with every range replaced in original coordinates.
C11_DescendingOrderCorrect ==
    (/\ pc \in {"ReplaceMany", "returned"}
     /\ Len(replacements) >= 1
     /\ AllInBounds(input, replacements)
     /\ NonEmptyRanges(replacements)
     /\ PairwiseNonOverlap(replacements)
     /\ DescendingStarts(replacements))
    => /\ off = 0
       /\ ret.err # "panic"
       /\ pc = "returned" => ret = Ok(Expected(input, replacements, 0))

====
